---------------------------- MODULE Spec2Model ----------------------------
(***************************************************************************)
(* Model of package alog (src/alog.go): levelled logging through a table   *)
(* of function values, one per level, built by SetLogLevel.                *)
(*                                                                         *)
(* The process has the package initialiser (init, which runs alone before  *)
(* main), one goroutine that calls SetLogLevel (modelled statement by      *)
(* statement, because nothing in the code synchronises the table), and     *)
(* callers of the six facade functions and of SetLogDestination, each of   *)
(* which is one step.                                                      *)
(***************************************************************************)
EXTENDS Integers, Sequences, FiniteSets, TLC

\* ------------------------------------------------------------- bounds
\* longest message template, in characters
MaxLen == 2
\* most variadic arguments of a facade call
MaxObjs == 1

\* ------------------------------------------------------------- levels
TRACE == 0
DEBUG == 1
INFO == 2
WARN == 3
ERROR == 4
CRITICAL == 5

\* the indexes of logFuncsSlice
Levels == TRACE..CRITICAL
\* LogLevel is a uint8: some of the values above CRITICAL
BadLevels == {6, 255}

\* map[LogLevel]string of display labels
logLevelIntToStringMap(level) ==
    CASE level = TRACE    -> "[TRACE] "
      [] level = DEBUG    -> "[DEBUG] "
      [] level = INFO     -> "[INFO] "
      [] level = WARN     -> "[WARN] "
      [] level = ERROR    -> "[ERROR] "
      [] level = CRITICAL -> "[CRITICAL] "
      [] OTHER            -> ""

Labels == {logLevelIntToStringMap(l) : l \in Levels}

\* map[string]LogLevel; a lookup yields the value and the ok flag, the zero
\* value 0 when the key is missing
logStringToIntLevelMap(name) ==
    CASE name = "TRACE"    -> [v |-> 0, ok |-> TRUE]
      [] name = "DEBUG"    -> [v |-> 1, ok |-> TRUE]
      [] name = "INFO"     -> [v |-> 2, ok |-> TRUE]
      [] name = "WARN"     -> [v |-> 3, ok |-> TRUE]
      [] name = "ERROR"    -> [v |-> 4, ok |-> TRUE]
      [] name = "CRITICAL" -> [v |-> 5, ok |-> TRUE]
      [] OTHER             -> [v |-> 0, ok |-> FALSE]

\* level names a configuration file may carry: "" is an absent key, "BOGUS"
\* and "info" (the match is case-sensitive) are unrecognised
LevelNames == {"", "TRACE", "DEBUG", "INFO", "WARN", "ERROR", "CRITICAL", "BOGUS", "info"}

\* ------------------------------------------------------------- state
VARIABLES
    phase,                 \* "load": before init; "run": init returned; "panic": init panicked
    world,                 \* what init will find: environment, files, parser outcome
    loggerConfigFileName,  \* package variable
    logDestination,        \* package variable
    logLevel,              \* package variable
    logFuncsSlice,         \* package variable: level -> function value
    logOutput,             \* the writer of the standard logger (log.SetOutput)
    singleTon,             \* sync.Once: TRUE once Do has run
    pc, lvl, idx,          \* the SetLogLevel goroutine: position, level, loop index
    lastSet,               \* the level of the last SetLogLevel that returned nil
    call                   \* the last facade / SetLogDestination / SetLogLevel call and what it did

vars == <<phase, world, loggerConfigFileName, logDestination, logLevel, logFuncsSlice,
          logOutput, singleTon, pc, lvl, idx, lastSet, call>>

LocalConf == "alog.conf"
EnvConf == "$ALOG_CONF_DIR/alog.conf"

\* every outcome of the calls init makes on its environment
Worlds ==
    { w \in [ localStat : {"notexist", "file", "dir", "error"},  \* os.Stat("alog.conf")
              envSet    : BOOLEAN,                                \* os.LookupEnv("ALOG_CONF_DIR")
              localOpen : BOOLEAN,                                \* os.Open("alog.conf") succeeds
              envOpen   : BOOLEAN,                                \* os.Open(<dir>/alog.conf) succeeds
              parseOK   : BOOLEAN,                                \* configParser.Parse returns nil
              fileName  : {"", "app.log"},                        \* alog.fileName
              logOpen   : BOOLEAN,                                \* os.OpenFile(fileName) succeeds
              levelName : LevelNames ] :                          \* alog.logLevel
        \* a file that is not there, or cannot even be stat'ed, cannot be opened
        /\ (w.localStat \in {"notexist", "error"} => ~w.localOpen)
        \* a directory named alog.conf opens, and holds no document
        /\ (w.localStat = "dir" /\ ~w.envSet => w.fileName = "" /\ w.levelName = "") }

\* init has returned and never looks at its environment again
Dropped ==
    [localStat |-> "notexist", envSet |-> FALSE, localOpen |-> FALSE, envOpen |-> FALSE,
     parseOK |-> FALSE, fileName |-> "", logOpen |-> FALSE, levelName |-> ""]

NoCall == [op |-> "none"]

Init ==
    /\ phase = "load"
    /\ world \in Worlds
    /\ loggerConfigFileName = LocalConf
    /\ logDestination = "Stdout"
    /\ logLevel = 0
    /\ logFuncsSlice = [i \in Levels |-> IF i = CRITICAL THEN "logMsg" ELSE "noOpLogMsg"]
    /\ logOutput = "Stderr"
    /\ singleTon = FALSE
    /\ pc = "idle"
    /\ lvl = 0
    /\ idx = 0
    /\ lastSet = CRITICAL
    /\ call = NoCall


\* ------------------------------------------------------------- init
\* fileExists: os.Stat, false when the error is "not exist", else !info.IsDir().
\* On any other Stat error info is nil and info.IsDir() panics.
fileExists(stat) ==
    CASE stat = "notexist" -> "false"
      [] stat = "file"     -> "true"
      [] stat = "dir"      -> "false"
      [] stat = "error"    -> "panic"

\* the environment's file preferred to the local one
SelectEnvConfFirst(w) == IF w.envSet THEN "true" ELSE "false"

\* the condition of the if that selects the file: ok && !fileExists("alog.conf");
\* && does not evaluate fileExists when the variable is unset
SelectEnvConf(w) ==
    IF ~w.envSet THEN "false"
    ELSE CASE fileExists(w.localStat) = "panic" -> "panic"
           [] fileExists(w.localStat) = "true"  -> "false"
           [] fileExists(w.localStat) = "false" -> "true"

\* the name init opens
ConfigFileName(w) == IF SelectEnvConf(w) = "true" THEN EnvConf ELSE LocalConf

\* os.Open(loggerConfigFileName) and configParser.Parse both returned nil
ConfigParsed(w) ==
    /\ IF ConfigFileName(w) = EnvConf THEN w.envOpen ELSE w.localOpen
    /\ w.parseOK

\* logDestination after the fileName branch
ResolveDestination(w) ==
    IF ConfigParsed(w) /\ w.fileName # ""
    THEN IF w.logOpen THEN "LogFile" ELSE "Stdout"
    ELSE logDestination

\* logLevel after the lookup of the level name
ResolveLevel(w) ==
    IF ConfigParsed(w) THEN logStringToIntLevelMap(w.levelName).v ELSE logLevel

\* ------------------------------------------------------------- the table
\* the first loop left out: entries keep what they held
ClearEntrySkipped(tab, i) == tab

\* one iteration of the first loop of setLogLevel
ClearEntry(tab, i) == [tab EXCEPT ![i] = "noOpLogMsg"]

\* p := logFuncsSlice[level:] has this many entries
FillLen(level) == CRITICAL + 1 - level

\* p taken from the front of the slice instead of from level on
FillIndexFromZero(level, i) == i

\* the entry of logFuncsSlice that p[i] is
FillIndex(level, i) == level + i

\* one iteration of the second loop of setLogLevel
FillEntry(tab, level, i) == [tab EXCEPT ![FillIndex(level, i)] = "logMsg"]

\* the clamp at the head of setLogLevel
Clamp(level) == IF level > CRITICAL THEN CRITICAL ELSE level

RECURSIVE ClearFrom(_, _)
ClearFrom(tab, i) ==
    IF i > CRITICAL THEN tab ELSE ClearFrom(ClearEntry(tab, i), i + 1)

RECURSIVE FillFrom(_, _, _)
FillFrom(tab, level, i) ==
    IF i >= FillLen(level) THEN tab
    ELSE FillFrom(FillEntry(tab, level, i), level, i + 1)

\* setLogLevel run to its end without interruption
setLogLevel(tab, level) == FillFrom(ClearFrom(tab, 0), Clamp(level), 0)

\* the range check left out
SetLogLevelErrNever(level) == "nil"

\* the error SetLogLevel returns
SetLogLevelErr(level) == IF level > CRITICAL THEN "InvalidLogLevelError" ELSE "nil"

\* the levels whose entry is the real writer
Active(tab) == {i \in Levels : tab[i] = "logMsg"}

init ==
    /\ phase = "load"
    /\ IF SelectEnvConf(world) = "panic"
       THEN /\ phase' = "panic"
            /\ world' = Dropped
            /\ UNCHANGED <<loggerConfigFileName, logDestination, logLevel, logFuncsSlice,
                           logOutput, lastSet>>
       ELSE /\ phase' = "run"
            /\ world' = Dropped
            /\ loggerConfigFileName' = ConfigFileName(world)
            /\ logDestination' = ResolveDestination(world)
            /\ logLevel' = ResolveLevel(world)
            \* SetLogLevel(logLevel); log.SetOutput(logDestination)
            /\ logFuncsSlice' = IF SetLogLevelErr(logLevel') = "nil"
                                THEN setLogLevel(logFuncsSlice, logLevel')
                                ELSE logFuncsSlice
            /\ lastSet' = IF SetLogLevelErr(logLevel') = "nil" THEN logLevel' ELSE lastSet
            /\ logOutput' = logDestination'
    /\ UNCHANGED <<singleTon, pc, lvl, idx, call>>

\* ------------------------------------------------------------- SetLogLevel
\* SetLogLevel behind a once that init's call has used up: the call returns
\* its result and the table stays
SetLogLevelOnce(level) ==
    /\ phase = "run"
    /\ pc = "idle"
    /\ call' = [op |-> "SetLogLevel", level |-> level, err |-> SetLogLevelErr(level)]
    /\ lastSet' = IF SetLogLevelErr(level) = "nil" THEN level ELSE lastSet
    /\ UNCHANGED <<phase, world, loggerConfigFileName, logDestination, logLevel,
                   logFuncsSlice, logOutput, singleTon, pc, lvl, idx>>

\* SetLogLevel is entered: an invalid level returns at once, a valid one
\* enters setLogLevel
SetLogLevel(level) ==
    /\ phase = "run"
    /\ pc = "idle"
    /\ IF SetLogLevelErr(level) # "nil"
       THEN /\ call' = [op |-> "SetLogLevel", level |-> level, err |-> SetLogLevelErr(level)]
            /\ UNCHANGED <<pc, lvl, idx, lastSet>>
       ELSE /\ pc' = "clear"
            /\ lvl' = Clamp(level)
            /\ idx' = 0
            /\ call' = [op |-> "SetLogLevel", level |-> level, err |-> "pending"]
            /\ UNCHANGED lastSet
    /\ UNCHANGED <<phase, world, loggerConfigFileName, logDestination, logLevel,
                   logFuncsSlice, logOutput, singleTon>>

\* for i := range logFuncsSlice { logFuncsSlice[i] = noOpLogMsg }
ClearStep ==
    /\ phase = "run"
    /\ pc = "clear"
    /\ logFuncsSlice' = ClearEntry(logFuncsSlice, idx)
    /\ IF idx = CRITICAL
       THEN pc' = "fill" /\ idx' = 0
       ELSE pc' = pc /\ idx' = idx + 1
    /\ UNCHANGED <<phase, world, loggerConfigFileName, logDestination, logLevel,
                   logOutput, singleTon, lvl, lastSet, call>>

\* for i := range p { p[i] = logMsg }
FillStep ==
    /\ phase = "run"
    /\ pc = "fill"
    /\ idx < FillLen(lvl)
    /\ logFuncsSlice' = FillEntry(logFuncsSlice, lvl, idx)
    /\ idx' = idx + 1
    /\ UNCHANGED <<phase, world, loggerConfigFileName, logDestination, logLevel,
                   logOutput, singleTon, pc, lvl, lastSet, call>>

\* return nil
ReturnStep ==
    /\ phase = "run"
    /\ pc = "fill"
    /\ idx >= FillLen(lvl)
    /\ pc' = "idle"
    /\ lastSet' = lvl
    /\ call' = [op |-> "SetLogLevel", level |-> lvl, err |-> "nil"]
    /\ lvl' = 0
    /\ idx' = 0
    /\ UNCHANGED <<phase, world, loggerConfigFileName, logDestination, logLevel,
                   logFuncsSlice, logOutput, singleTon>>

\* ------------------------------------------------------------- the writer
\* the characters of a message template: a plain one, the percent sign, and
\* one that is both a plain character and a verb
Alphabet == {"a", "%", "d"}

\* the message templates of at most n characters
Templates(n) == UNION {[1..k -> Alphabet] : k \in 0..n}

\* the argument lists of at most n arguments, each the int 7
ObjLists(n) == UNION {[1..k -> {"7"}] : k \in 0..n}

\* fmt's report of the arguments no verb consumed: int=7, int=7
RECURSIVE ExtraArgs(_, _)
ExtraArgs(a, n) ==
    IF n >= Len(a) THEN <<>>
    ELSE <<"int=", a[n + 1]>> \o (IF n + 1 < Len(a) THEN <<", ">> ELSE <<>>) \o ExtraArgs(a, n + 1)

\* fmt.Sprintf(f, a...) from character i on with n arguments consumed, as the
\* pieces of its output: a plain character is copied, %% gives %, a verb
\* consumes an argument (%d prints the int, any other verb reports a bad verb)
\* or reports a missing one, a trailing % reports NOVERB, and arguments left
\* over are reported at the end
RECURSIVE doPrintf(_, _, _, _)
doPrintf(f, i, a, n) ==
    IF i > Len(f)
    THEN IF n < Len(a) THEN <<"%!(EXTRA ">> \o ExtraArgs(a, n) \o <<")">> ELSE <<>>
    ELSE IF f[i] # "%" THEN <<f[i]>> \o doPrintf(f, i + 1, a, n)
    ELSE IF i = Len(f) THEN <<"%!(NOVERB)">> \o doPrintf(f, i + 1, a, n)
    ELSE IF f[i + 1] = "%" THEN <<"%">> \o doPrintf(f, i + 2, a, n)
    ELSE IF n >= Len(a) THEN <<"%!", f[i + 1], "(MISSING)">> \o doPrintf(f, i + 2, a, n)
    ELSE IF f[i + 1] = "d" THEN <<a[n + 1]>> \o doPrintf(f, i + 2, a, n + 1)
    ELSE <<"%!", f[i + 1], "(int=", a[n + 1], ")">> \o doPrintf(f, i + 2, a, n + 1)

Sprintf(f, a) == doPrintf(f, 1, a, 0)

\* the date and time the standard logger puts before the text (log.SetFlags)
Stamp == "2006/01/02 15:04:05.000000 "

\* the label of the configured level instead of the level of the call
MsgLabelOfThreshold(level) == logLevelIntToStringMap(logLevel)

\* the label logMsg puts into the line
MsgLabel(level) == logLevelIntToStringMap(level)

\* the string log.Printf formats: "- " + label + "- " + msg
MsgFormat(level, msg) == <<"- ", MsgLabel(level), "- ">> \o msg

\* log.Printf(m, objs...) when there are arguments, log.Printf(m) when not
MsgText(level, msg, objs) ==
    IF Len(objs) > 0 THEN Sprintf(MsgFormat(level, msg), objs)
    ELSE Sprintf(MsgFormat(level, msg), <<>>)

\* logMsg: the one Write the standard logger makes, on its current writer
logMsg(level, msg, objs) ==
    <<[dest |-> logOutput, line |-> <<Stamp>> \o MsgText(level, msg, objs) \o <<"\n">>]>>

\* noOpLogMsg writes nothing
noOpLogMsg(level, msg, objs) == <<>>

\* ------------------------------------------------------------- the facade
\* the body the six facade functions share: select the function value of the
\* level and call it with the level
Facade(fn, level, msg, objs) ==
    /\ phase = "run"
    /\ LET logFunc == logFuncsSlice[level]
       IN  call' = [op |-> fn, level |-> level, msg |-> msg, objs |-> objs,
                    sink |-> logFunc,
                    writes |-> IF logFunc = "logMsg" THEN logMsg(level, msg, objs)
                               ELSE noOpLogMsg(level, msg, objs)]
    /\ UNCHANGED <<phase, world, loggerConfigFileName, logDestination, logLevel,
                   logFuncsSlice, logOutput, singleTon, pc, lvl, idx, lastSet>>

Trace(msg, objs) == Facade("Trace", TRACE, msg, objs)

Debug(msg, objs) == Facade("Debug", DEBUG, msg, objs)

Info(msg, objs) == Facade("Info", INFO, msg, objs)

Warn(msg, objs) == Facade("Warn", WARN, msg, objs)

Error(msg, objs) == Facade("Error", ERROR, msg, objs)

Critical(msg, objs) == Facade("Critical", CRITICAL, msg, objs)

\* ------------------------------------------------------------- SetLogDestination
\* the writers a caller passes
Writers == {"W1", "W2"}

\* log.SetOutput(w) outside the once
OnceSetOutputAlways(w) == w

\* the standard logger's writer after singleTon.Do(func(){ log.SetOutput(w) })
OnceSetOutput(w) == IF singleTon THEN logOutput ELSE w

SetLogDestination(w) ==
    /\ phase = "run"
    /\ logOutput' = OnceSetOutput(w)
    /\ singleTon' = TRUE
    /\ call' = [op |-> "SetLogDestination", w |-> w]
    /\ UNCHANGED <<phase, world, loggerConfigFileName, logDestination, logLevel,
                   logFuncsSlice, pc, lvl, idx, lastSet>>

\* ------------------------------------------------------------- the system
\* the calls callers make of a facade function while the level is being set:
\* a plain message, and a directive with its argument
RunCalls == { <<(<<"a">>), (<<>>)>>, <<(<<"%", "d">>), (<<"7">>)>> }

\* the process: init, then SetLogLevel, the facade and SetLogDestination in
\* any interleaving
Next ==
    \/ init
    \/ \E level \in Levels \cup BadLevels : SetLogLevel(level)
    \/ ClearStep
    \/ FillStep
    \/ ReturnStep
    \/ \E c \in RunCalls : Trace(c[1], c[2])
    \/ \E c \in RunCalls : Debug(c[1], c[2])
    \/ \E c \in RunCalls : Info(c[1], c[2])
    \/ \E c \in RunCalls : Warn(c[1], c[2])
    \/ \E c \in RunCalls : Error(c[1], c[2])
    \/ \E c \in RunCalls : Critical(c[1], c[2])
    \/ \E w \in Writers : SetLogDestination(w)

Spec == Init /\ [][Next]_vars

\* a process that is configured by its files alone and then logs: init, then
\* facade calls with every template and argument list within the bounds
NextStartup ==
    \/ init
    \/ \E msg \in Templates(MaxLen), objs \in ObjLists(MaxObjs) : Trace(msg, objs)
    \/ \E msg \in Templates(MaxLen), objs \in ObjLists(MaxObjs) : Debug(msg, objs)
    \/ \E msg \in Templates(MaxLen), objs \in ObjLists(MaxObjs) : Info(msg, objs)
    \/ \E msg \in Templates(MaxLen), objs \in ObjLists(MaxObjs) : Warn(msg, objs)
    \/ \E msg \in Templates(MaxLen), objs \in ObjLists(MaxObjs) : Error(msg, objs)
    \/ \E msg \in Templates(MaxLen), objs \in ObjLists(MaxObjs) : Critical(msg, objs)

SpecStartup == Init /\ [][NextStartup]_vars

\* a process that only sets its level: init, then SetLogLevel calls, one at a
\* time, statement by statement
NextLevels ==
    \/ init
    \/ \E level \in Levels \cup BadLevels : SetLogLevel(level)
    \/ ClearStep
    \/ FillStep
    \/ ReturnStep

SpecLevels == Init /\ [][NextLevels]_vars

\* ------------------------------------------------------------- the claims
FacadeNames == {"Trace", "Debug", "Info", "Warn", "Error", "Critical"}

\* the severity a facade function stands for
FacadeLevel(fn) ==
    CASE fn = "Trace"    -> TRACE
      [] fn = "Debug"    -> DEBUG
      [] fn = "Info"     -> INFO
      [] fn = "Warn"     -> WARN
      [] fn = "Error"    -> ERROR
      [] fn = "Critical" -> CRITICAL

\* the last call was of a facade function, made after the last SetLogLevel
\* returned and with no SetLogLevel in progress
QuietFacadeCall == phase = "run" /\ pc = "idle" /\ call.op \in FacadeNames

\* the text of a written line between the second "- " and the newline
TextOf(line) == SubSeq(line, 5, Len(line) - 1)

\* C1: once SetLogLevel(t) has returned, the table entry of every severity
\* below t is the no-op, and a facade call for such a severity invokes the
\* no-op and makes no write
C1_BelowThresholdSilent ==
    /\ (phase = "run" /\ pc = "idle") =>
          \A s \in Levels : s < lastSet => logFuncsSlice[s] = "noOpLogMsg"
    /\ (QuietFacadeCall /\ FacadeLevel(call.op) < lastSet) =>
          (call.sink = "noOpLogMsg" /\ call.writes = <<>>)

\* C1 witness: SetLogLevel(ERROR) returned in a process configured at TRACE,
\* then Warn was called and wrote nothing
C1_Witness ==
    /\ QuietFacadeCall /\ call.op = "Warn"
    /\ lastSet = ERROR /\ logLevel = TRACE
    /\ call.writes = <<>>

\* C2: once SetLogLevel(t) has returned, a facade call for a severity s >= t
\* makes exactly one write, on the logger's writer; the line carries the label
\* of s and of no other level, followed by the rendered message
C2_ActiveWritesOnce ==
    (QuietFacadeCall /\ FacadeLevel(call.op) >= lastSet) =>
        /\ Len(call.writes) = 1
        /\ call.writes[1].dest = logOutput
        /\ LET line == call.writes[1].line
           IN  /\ line[1] = Stamp
               /\ line[3] = logLevelIntToStringMap(FacadeLevel(call.op))
               /\ \A k \in 1..Len(line) : line[k] \in Labels => k = 3
               /\ line[Len(line)] = "\n"
               /\ TextOf(line) = Sprintf(call.msg, call.objs)

\* C2 witness: SetLogLevel(ERROR) returned in a process configured at TRACE,
\* then Error was called with a directive and its argument and wrote a line
C2_Witness ==
    /\ QuietFacadeCall /\ call.op = "Error"
    /\ lastSet = ERROR /\ logLevel = TRACE
    /\ call.objs = <<"7">>
    /\ Len(call.writes) = 1
    /\ TextOf(call.writes[1].line) = <<"7">>

\* C3: a SetLogLevel call with a level above CRITICAL returns
\* InvalidLogLevelError and leaves every entry of the table as it was
C3_InvalidLevelRejected ==
    [][(call'.op = "SetLogLevel" /\ call'.level > CRITICAL) =>
          (call'.err = "InvalidLogLevelError" /\ logFuncsSlice' = logFuncsSlice
             /\ pc' = "idle")]_vars

\* C3 witness: an invalid call returned its error while the table was the one
\* an earlier SetLogLevel(ERROR) built over a TRACE configuration
C3_Witness ==
    /\ call.op = "SetLogLevel" /\ call.level = 255
    /\ call.err = "InvalidLogLevelError"
    /\ logLevel = TRACE
    /\ Active(logFuncsSlice) = {ERROR, CRITICAL}

Built == [t \in Levels |-> Active(setLogLevel(logFuncsSlice, t))]

\* C5: over any table, the levels active after a build with t2 are among those
\* active after a build with t1 <= t2, and every build's active set is
\* upward-closed
C5_Monotone ==
    phase = "run" =>
        /\ \A t1, t2 \in Levels : t1 <= t2 => Built[t2] \subseteq Built[t1]
        /\ \A t \in Levels : \A s1, s2 \in Levels :
              (s1 \in Built[t] /\ s1 <= s2) => s2 \in Built[t]
        /\ pc = "idle" =>
              \A s1, s2 \in Levels :
                 (s1 \in Active(logFuncsSlice) /\ s1 <= s2) => s2 \in Active(logFuncsSlice)

\* C5 witness: a table built with DEBUG was rebuilt with WARN and lost levels
C5_Witness ==
    /\ phase = "run" /\ pc = "idle"
    /\ logLevel = DEBUG /\ lastSet = WARN
    /\ Active(logFuncsSlice) = {WARN, ERROR, CRITICAL}
    /\ Built[DEBUG] = {DEBUG, INFO, WARN, ERROR, CRITICAL}

\* alog.conf is a regular file in the current directory
LocalExists(w) == w.localStat = "file"

\* nothing that could be a configuration file is in the current directory
LocalAbsent(w) == w.localStat \in {"notexist", "dir"}

\* the variable is set and the file in its directory is there to be opened
EnvExists(w) == w.envSet /\ w.envOpen

\* C6: init takes its configuration file in priority order: the local
\* alog.conf when it exists, whatever ALOG_CONF_DIR holds; else the one in
\* ALOG_CONF_DIR when the variable is set and the file exists; with no file in
\* either place the result is TRACE, all six levels active, standard output
C6_ConfigPriority ==
    [][phase = "load" =>
          /\ LocalExists(world) =>
                (phase' = "run" /\ loggerConfigFileName' = LocalConf)
          /\ (LocalAbsent(world) /\ EnvExists(world)) =>
                (phase' = "run" /\ loggerConfigFileName' = EnvConf)
          /\ (LocalAbsent(world) /\ ~EnvExists(world)) =>
                /\ phase' = "run"
                /\ logLevel' = TRACE
                /\ Active(logFuncsSlice') = Levels
                /\ logDestination' = "Stdout"
                /\ logOutput' = "Stdout"]_vars

\* C6 witness: init took the file of ALOG_CONF_DIR and its settings
C6_Witness ==
    /\ phase = "run" /\ call = NoCall
    /\ loggerConfigFileName = EnvConf
    /\ logLevel = ERROR /\ logOutput = "LogFile"

\* C7: for every outcome of the environment init returns without a panic,
\* with the opened log file or standard output as destination (standard output
\* when no file was opened) and a threshold in TRACE..CRITICAL, which is TRACE
\* with all six levels active when the level name is absent or unrecognised
C7_ResolutionNeverAborts ==
    [][phase = "load" =>
          /\ phase' = "run"
          /\ logOutput' \in {"Stdout", "LogFile"}
          /\ (logOutput' = "LogFile" => (world.fileName # "" /\ world.logOpen))
          /\ logLevel' \in Levels
          /\ ~logStringToIntLevelMap(world.levelName).ok =>
                (logLevel' = TRACE /\ Active(logFuncsSlice') = Levels)]_vars

\* C8: a facade call without arguments that writes, writes its template as
\* it is after the label
C8_NoArgsLiteral ==
    (phase = "run" /\ call.op \in FacadeNames /\ call.objs = <<>> /\ call.writes # <<>>) =>
        TextOf(call.writes[1].line) = call.msg

C10_DestinationOnce ==
    [][phase = "run" =>
          /\ (~singleTon /\ singleTon') =>
                (call'.op = "SetLogDestination" /\ logOutput' = call'.w)
          /\ singleTon => (singleTon' /\ logOutput' = logOutput)
          /\ ~singleTon' => logOutput' = logDestination
          /\ (call'.op \in FacadeNames /\ call'.writes # <<>>) =>
                call'.writes[1].dest = logOutput']_vars

\* C10 witness: a second SetLogDestination, with another writer, returned and
\* the writer of the first is still in place; then a line went to it
C10_Witness ==
    /\ phase = "run" /\ singleTon
    /\ logOutput = "W1"
    /\ call.op = "Critical"
    /\ call.writes # <<>> /\ call.writes[1].dest = "W1"
    /\ logDestination = "LogFile"

=============================================================================
